---- MODULE Spec2Model ----
(***************************************************************************)
(* Model of the Gapp text editor (src/src/main.py): one window holding a   *)
(* text area with a line-number gutter, a File menu (Open, Save, Save As), *)
(* a Ctrl+N "new file" shortcut, a View toggle for the line numbers and a  *)
(* status bar with a file label and a transient message.                   *)
(*                                                                         *)
(* A step of the model is one complete run of an event handler, with       *)
(* every slot the handler's signals reach (textChanged,                    *)
(* blockCountChanged) run inside it, as the toolkit's direct connections   *)
(* do.  What the user answers in a dialog and what the disk does to an     *)
(* open/read/write are the inputs of a step.                               *)
(***************************************************************************)
EXTENDS Integers, Sequences

VARIABLES
    text,               \* TextEditor.toPlainText()
    current_file_path,  \* TextEditor.current_file_path ("" = none)
    file_label,         \* StatusBar.file_label.text()
    statusMessage,      \* the status bar's transient message <<prefix, argument>>
    fs,                 \* the disk: path -> content (a sequence of symbols) or NoFile
    linesep,            \* os.linesep of the platform the program runs on
    show_line_numbers,  \* TextEditor.show_line_numbers
    areaVisible,        \* line_number_area.isVisible() (not hidden)
    areaWidth,          \* line_number_area.width()
    viewportMargin,     \* left viewport margin of the text area
    actionChecked,      \* check mark of the "Show Line Numbers" action
    event,              \* the handler that ran last and the fault the disk injected
    dialog,             \* what the file dialog of that handler returned, or NoDialog
    outcome,            \* how that handler ended
    painted             \* what the last paintEvent of the gutter did

vars == <<text, current_file_path, file_label, statusMessage, fs, linesep,
          show_line_numbers, areaVisible, areaWidth, viewportMargin,
          actionChecked, event, dialog, outcome, painted>>

editorVars == <<text, current_file_path, file_label, statusMessage, fs, areaWidth>>
viewVars == <<show_line_numbers, areaVisible, viewportMargin, actionChecked>>

(***************************************************************************)
(* Bounds of the model.                                                    *)
(***************************************************************************)
\* longest text the user types into the editor
MaxLen == 2
\* longest content of the file the disk holds when the program starts
MaxFileLen == 1

(***************************************************************************)
(* Symbols.  A file is a sequence of symbols; a text is a sequence of      *)
(* characters.  BAD stands for a byte sequence that is not valid UTF-8;    *)
(* every other symbol is a character whose UTF-8 encoding maps one to one. *)
(***************************************************************************)
LF == "\n"
CR == "\r"
BAD == "<invalid utf-8>"
TypedChars == {"a", LF}
FileSymbols == {"a", LF, CR, BAD}

Paths == {"/a.txt", "/b.txt"}
\* the disk holds no file at a path (a value no content equals)
NoFile == <<"<no file>">>
NoDialog == "<no dialog>"
NoMessage == <<"", "">>

RECURSIVE SeqsUpTo(_, _)
SeqsUpTo(S, n) ==
    IF n = 0 THEN {<<>>}
    ELSE LET shorter == SeqsUpTo(S, n - 1)
         IN  shorter \cup {Append(s, c) : s \in {x \in shorter : Len(x) = n - 1}, c \in S}

(***************************************************************************)
(* File input and output, as Python's text mode does them.                 *)
(***************************************************************************)
\* open(path, "r", encoding="utf-8").read(): decoding fails on invalid UTF-8
Decodable(content) == \A i \in 1..Len(content) : content[i] # BAD

\* ReadText without the translation of line endings
ReadRaw(content) == content

\* ... and, newline being left at its default, "\r\n" and "\r" are read as "\n"
RECURSIVE ReadText(_)
ReadText(content) ==
    IF content = <<>> THEN <<>>
    ELSE IF Head(content) = CR
         THEN IF Len(content) >= 2 /\ content[2] = LF
              THEN <<LF>> \o ReadText(Tail(Tail(content)))
              ELSE <<LF>> \o ReadText(Tail(content))
         ELSE <<Head(content)>> \o ReadText(Tail(content))

\* open(path, "w", encoding="utf-8").write(text): newline being left at its
\* default, every "\n" is written as os.linesep
RECURSIVE WriteText(_, _)
WriteText(t, sep) ==
    IF t = <<>> THEN <<>>
    ELSE (IF Head(t) = LF THEN sep ELSE <<Head(t)>>) \o WriteText(Tail(t), sep)

(***************************************************************************)
(* Widgets.                                                                *)
(***************************************************************************)
\* document().blockCount(): one block per line
RECURSIVE CountLF(_)
CountLF(t) == IF t = <<>> THEN 0 ELSE (IF Head(t) = LF THEN 1 ELSE 0) + CountLF(Tail(t))
blockCount(t) == 1 + CountLF(t)

\* fontMetrics().horizontalAdvance("9"), in pixels
HorizontalAdvance == 8

\* len(str(n)) for n >= 1
RECURSIVE Digits(_)
Digits(n) == IF n < 10 THEN 1 ELSE 1 + Digits(n \div 10)

_calculate_width(t) ==
    LET n == blockCount(t)
    IN  10 + Digits(IF n < 1 THEN 1 ELSE n) * HorizontalAdvance

\* the label a path is shown as
LabelOf(path) == IF path = "" THEN "No file open" ELSE path

\* StatusBar._update_file_label, the slot of textChanged: it reads the path
\* the editor holds when the signal is emitted
_update_file_label == file_label' = LabelOf(current_file_path)

\* LineNumberArea.update_width, the slot of blockCountChanged
update_width(t) == areaWidth' = _calculate_width(t)

\* QTextEdit.setPlainText / clear / a user edit: the text is replaced and
\* textChanged (and blockCountChanged) reach their slots before the call returns
setPlainText(t) ==
    /\ text' = t
    /\ _update_file_label
    /\ update_width(t)

\* statusBar().showMessage(prefix + argument, 5000)
showMessage(prefix, argument) == statusMessage' = <<prefix, argument>>

(***************************************************************************)
(* Handlers.  Each sets every editor variable, dialog and outcome.         *)
(***************************************************************************)
ReadFaults == {"none", "PermissionError"}
WriteFaults == {"none", "open", "write"}

\* the exception open()/read() raise for file_path, or "none"
ReadException(file_path, fault) ==
    IF fs[file_path] = NoFile THEN "FileNotFoundError"
    ELSE IF fault # "none" THEN fault
    ELSE IF ~Decodable(fs[file_path]) THEN "UnicodeDecodeError"
    ELSE "none"

\* with open(file_path, "w") as file: file.write(t) -- the disk afterwards.
\* A failing open leaves the disk alone.  A failing write (the buffered text
\* is flushed when the file is closed) leaves the file as the open truncated it.
WriteFile(file_path, t, fault) ==
    IF fault = "open" THEN fs
    ELSE IF fault = "write"
         THEN [fs EXCEPT ![file_path] = <<>>]
         ELSE [fs EXCEPT ![file_path] = WriteText(t, linesep)]

\* _open_file with the path assigned before the file is read
open_file_assigns_first(file_path, fault) ==
    /\ dialog' = file_path
    /\ IF file_path = ""
       THEN /\ outcome' = "cancel"
            /\ UNCHANGED editorVars
       ELSE IF ReadException(file_path, fault) # "none"
       THEN /\ outcome' = "error"
            /\ showMessage("Error opening file: ", ReadException(file_path, fault))
            /\ current_file_path' = file_path
            /\ UNCHANGED <<text, file_label, fs, areaWidth>>
       ELSE /\ outcome' = "ok"
            /\ setPlainText(ReadText(fs[file_path]))
            /\ current_file_path' = file_path
            /\ showMessage("Opened: ", file_path)
            /\ UNCHANGED fs

\* FileMenu._open_file
_open_file(file_path, fault) ==
    /\ dialog' = file_path
    /\ IF file_path = ""
       THEN /\ outcome' = "cancel"
            /\ UNCHANGED editorVars
       ELSE IF ReadException(file_path, fault) # "none"
       THEN /\ outcome' = "error"
            /\ showMessage("Error opening file: ", ReadException(file_path, fault))
            /\ UNCHANGED <<text, current_file_path, file_label, fs, areaWidth>>
       ELSE /\ outcome' = "ok"
            /\ setPlainText(ReadText(fs[file_path]))
            /\ current_file_path' = file_path
            /\ showMessage("Opened: ", file_path)
            /\ UNCHANGED fs

\* _save_as_file with the path assigned before the file is written
save_as_assigns_first(file_path, fault) ==
    /\ dialog' = file_path
    /\ IF file_path = ""
       THEN /\ outcome' = "cancel"
            /\ UNCHANGED editorVars
       ELSE /\ fs' = WriteFile(file_path, text, fault)
            /\ current_file_path' = file_path
            /\ IF fault # "none"
               THEN /\ outcome' = "error"
                    /\ showMessage("Error saving file: ", "OSError")
               ELSE /\ outcome' = "ok"
                    /\ UNCHANGED statusMessage
            /\ UNCHANGED <<text, file_label, areaWidth>>

\* MainWindow._save_as_file
_save_as_file(file_path, fault) ==
    /\ dialog' = file_path
    /\ IF file_path = ""
       THEN /\ outcome' = "cancel"
            /\ UNCHANGED editorVars
       ELSE /\ fs' = WriteFile(file_path, text, fault)
            /\ IF fault # "none"
               THEN /\ outcome' = "error"
                    /\ showMessage("Error saving file: ", "OSError")
                    /\ UNCHANGED current_file_path
               ELSE /\ outcome' = "ok"
                    /\ current_file_path' = file_path
                    /\ UNCHANGED statusMessage
            /\ UNCHANGED <<text, file_label, areaWidth>>

\* save_file asking for a path although the editor holds one
save_file_always_asks(file_path, fault) == _save_as_file(file_path, fault)

\* MainWindow.save_file
save_file(file_path, fault) ==
    IF current_file_path # ""
    THEN /\ dialog' = NoDialog
         /\ fs' = WriteFile(current_file_path, text, fault)
         /\ IF fault # "none"
            THEN /\ outcome' = "error"
                 /\ showMessage("Error saving file: ", "OSError")
            ELSE /\ outcome' = "ok"
                 /\ UNCHANGED statusMessage
         /\ UNCHANGED <<text, current_file_path, file_label, areaWidth>>
    ELSE _save_as_file(file_path, fault)

\* new_file clearing the editor before it looks at the dialog's answer
new_file_clears_first(file_path) ==
    /\ dialog' = file_path
    /\ setPlainText(<<>>)
    /\ IF file_path = ""
       THEN /\ outcome' = "cancel"
            /\ UNCHANGED <<current_file_path, statusMessage, fs>>
       ELSE /\ outcome' = "ok"
            /\ current_file_path' = file_path
            /\ UNCHANGED <<statusMessage, fs>>

\* MainWindow.new_file
new_file(file_path) ==
    /\ dialog' = file_path
    /\ IF file_path = ""
       THEN /\ outcome' = "cancel"
            /\ UNCHANGED editorVars
       ELSE /\ outcome' = "ok"
            /\ setPlainText(<<>>)
            /\ current_file_path' = file_path
            /\ UNCHANGED <<statusMessage, fs>>

\* update_margins without the setVisible call
update_margins_keeps_widget(show) ==
    /\ viewportMargin' = IF show THEN areaWidth ELSE 0
    /\ UNCHANGED areaVisible

\* TextEditor.update_margins, for the new value of show_line_numbers
update_margins(show) ==
    /\ viewportMargin' = IF show THEN areaWidth ELSE 0
    /\ areaVisible' = show

\* TextEditor.toggle_line_numbers
toggle_line_numbers ==
    /\ show_line_numbers' = ~show_line_numbers
    /\ update_margins(~show_line_numbers)

(***************************************************************************)
(* Events.                                                                 *)
(***************************************************************************)
Answers == Paths \cup {""}

\* File > Open (Ctrl+O)
Open ==
    \E file_path \in Answers, fault \in ReadFaults :
        /\ fault # "none" => file_path # "" /\ fs[file_path] # NoFile
        /\ event' = [op |-> "open", fault |-> fault]
        /\ _open_file(file_path, fault)
        /\ UNCHANGED <<viewVars, linesep, painted>>

\* File > Save (Ctrl+S): FileMenu._save_file calls MainWindow.save_file
Save ==
    \E file_path \in Answers, fault \in WriteFaults :
        /\ (current_file_path = "" /\ file_path = "") => fault = "none"
        /\ event' = [op |-> "save", fault |-> fault]
        /\ save_file(file_path, fault)
        /\ UNCHANGED <<viewVars, linesep, painted>>

\* File > Save As: FileMenu._save_as_file calls MainWindow._save_as_file
SaveAs ==
    \E file_path \in Answers, fault \in WriteFaults :
        /\ file_path = "" => fault = "none"
        /\ event' = [op |-> "save_as", fault |-> fault]
        /\ _save_as_file(file_path, fault)
        /\ UNCHANGED <<viewVars, linesep, painted>>

\* Ctrl+N
New ==
    \E file_path \in Answers :
        /\ event' = [op |-> "new", fault |-> "none"]
        /\ new_file(file_path)
        /\ UNCHANGED <<viewVars, linesep, painted>>

\* the user types a character at the end of the text
TypeChar ==
    \E c \in TypedChars :
        /\ Len(text) < MaxLen
        /\ event' = [op |-> "edit", fault |-> "none"]
        /\ dialog' = NoDialog
        /\ outcome' = "ok"
        /\ setPlainText(Append(text, c))
        /\ UNCHANGED <<current_file_path, statusMessage, fs>>
        /\ UNCHANGED <<viewVars, linesep, painted>>

\* the user deletes the last character of the text
Backspace ==
    /\ text # <<>>
    /\ event' = [op |-> "edit", fault |-> "none"]
    /\ dialog' = NoDialog
    /\ outcome' = "ok"
    /\ setPlainText(SubSeq(text, 1, Len(text) - 1))
    /\ UNCHANGED <<current_file_path, statusMessage, fs>>
    /\ UNCHANGED <<viewVars, linesep, painted>>

\* the 5000 ms of a status message run out
MessageTimeout ==
    /\ statusMessage # NoMessage
    /\ event' = [op |-> "timeout", fault |-> "none"]
    /\ dialog' = NoDialog
    /\ outcome' = "ok"
    /\ statusMessage' = NoMessage
    /\ UNCHANGED <<text, current_file_path, file_label, fs, areaWidth>>
    /\ UNCHANGED <<viewVars, linesep, painted>>

\* View > Show Line Numbers: the checkable action flips its check mark and
\* emits triggered, whose slot is toggle_line_numbers
ToggleLineNumbers ==
    /\ event' = [op |-> "toggle", fault |-> "none"]
    /\ dialog' = NoDialog
    /\ outcome' = "ok"
    /\ actionChecked' = ~actionChecked
    /\ toggle_line_numbers
    /\ UNCHANGED <<editorVars, linesep, painted>>

(***************************************************************************)
(* The gutter's repaint.                                                   *)
(***************************************************************************)
\* class TextEditor(QTextEdit): the toolkit class the editor derives from
EditorBase == "QTextEdit"

\* The methods paintEvent calls on the editor.  QTextEdit and QPlainTextEdit
\* share the first two; the block-layout methods are QPlainTextEdit's alone,
\* and TextEditor defines none of them itself.
SharedMethods == {"document", "fontMetrics"}
BlockLayoutMethods ==
    {"firstVisibleBlock", "blockBoundingGeometry", "blockBoundingRect", "contentOffset"}
EditorAttributes ==
    SharedMethods \cup {"show_line_numbers", "current_file_path", "line_number_area"}
        \cup (IF EditorBase = "QPlainTextEdit" THEN BlockLayoutMethods ELSE {})

\* blockBoundingRect(block).height() of a one-line block, in pixels
BlockHeight == 2
\* height of the gutter, in pixels
ViewHeight == 4

\* QTextBlock.isValid(): the block is one of the document's n blocks
isValid(block, n) == block < n
\* QTextBlock.isVisible(): the program never hides a block
isVisible(block) == TRUE
\* blockBoundingRect(block).height(): an invalid block has an empty rectangle
blockHeight(block, n) == IF isValid(block, n) THEN BlockHeight ELSE 0

\* the while loop of paintEvent: the numbers drawn, each with its int(top);
\* rect is <<event.rect().top(), event.rect().bottom()>>
RECURSIVE PaintLoop(_, _, _, _, _, _)
PaintLoop(block, block_number, top, bottom, rect, n) ==
    IF isValid(block, n) /\ top <= rect[2]
    THEN (IF isVisible(block) /\ bottom >= rect[1]
          THEN <<[number |-> block_number + 1, top |-> top]>>
          ELSE <<>>)
         \o PaintLoop(block + 1, block_number + 1, bottom,
                      bottom + blockHeight(block + 1, n), rect, n)
    ELSE <<>>

\* LineNumberArea.paintEvent for the rectangle rect, with `first` the first
\* visible block and `top` the top of that block in the gutter's coordinates
paintEvent(rect, first, top) ==
    IF ~show_line_numbers
    THEN [rect |-> rect, first |-> first, top |-> top,
          filled |-> FALSE, drawn |-> <<>>, raised |-> "none"]
    ELSE IF "firstVisibleBlock" \notin EditorAttributes
    THEN [rect |-> rect, first |-> first, top |-> top,
          filled |-> TRUE, drawn |-> <<>>, raised |-> "AttributeError"]
    ELSE [rect |-> rect, first |-> first, top |-> top,
          filled |-> TRUE,
          drawn |-> PaintLoop(first, first, top, top + blockHeight(first, blockCount(text)),
                              rect, blockCount(text)),
          raised |-> "none"]

\* the toolkit repaints the gutter: any rectangle of it, at any scroll position,
\* the first visible block starting at or above the gutter's upper edge
\* (a hidden widget gets no paint event)
Paint ==
    \E rtop \in 0..(ViewHeight - 1), rbottom \in 0..(ViewHeight - 1),
       first \in 0..(blockCount(text) - 1), top \in (1 - BlockHeight)..0 :
        /\ areaVisible
        /\ rtop <= rbottom
        /\ event' = [op |-> "paint", fault |-> "none"]
        /\ dialog' = NoDialog
        /\ painted' = paintEvent(<<rtop, rbottom>>, first, top)
        /\ outcome' = IF painted'.raised = "none" THEN "ok" ELSE "raised"
        /\ UNCHANGED <<editorVars, viewVars, linesep>>

NoPaint ==
    [rect |-> <<0, 0>>, first |-> 0, top |-> 0,
     filled |-> FALSE, drawn |-> <<>>, raised |-> "none"]

(***************************************************************************)
(* The program.                                                            *)
(***************************************************************************)
\* the state after MainWindow.__init__
Init ==
    /\ text = <<>>
    /\ current_file_path = ""
    /\ file_label = LabelOf("")
    /\ statusMessage = NoMessage
    /\ \E c \in SeqsUpTo(FileSymbols, MaxFileLen) \cup {NoFile} :
           fs = [p \in Paths |-> IF p = "/a.txt" THEN c ELSE NoFile]
    /\ linesep \in {<<LF>>, <<CR, LF>>}
    /\ show_line_numbers = TRUE
    /\ areaVisible = TRUE
    /\ areaWidth = _calculate_width(<<>>)
    /\ viewportMargin = _calculate_width(<<>>)
    /\ actionChecked = TRUE
    /\ event = [op |-> "init", fault |-> "none"]
    /\ dialog = NoDialog
    /\ outcome = "ok"
    /\ painted = NoPaint

\* The file side of the program: the File menu, Ctrl+N, editing, the status
\* bar.  None of its handlers reads or writes a view variable.
Next ==
    \/ Open
    \/ Save
    \/ SaveAs
    \/ New
    \/ TypeChar
    \/ Backspace
    \/ MessageTimeout

Spec == Init /\ [][Next]_vars

\* The view side of the program: editing, the View menu, the gutter's repaint.
\* Its handlers read the text and leave the file side alone.
NextView ==
    \/ TypeChar
    \/ Backspace
    \/ ToggleLineNumbers
    \/ Paint

SpecView == Init /\ [][NextView]_vars
(***************************************************************************)
(* Properties.                                                             *)
(***************************************************************************)
Saving == event.op \in {"save", "save_as"}

\* C1: when the file picked in the Open dialog cannot be opened or read
\* (missing, no permission, invalid UTF-8), the handler catches the exception,
\* the status bar shows "Error opening file: ...", and the editor text and
\* current_file_path stay what they were.
OpenIsGuarded ==
    [][(/\ event'.op = "open"
        /\ dialog' \in Paths
        /\ ReadException(dialog', event'.fault) # "none")
       => (/\ outcome' = "error"
           /\ statusMessage'[1] = "Error opening file: "
           /\ text' = text
           /\ current_file_path' = current_file_path)]_vars

\* an Open failed on invalid UTF-8 while the editor held a text and another file
OpenFailedWitness ==
    /\ event.op = "open"
    /\ outcome = "error"
    /\ statusMessage = <<"Error opening file: ", "UnicodeDecodeError">>
    /\ text # <<>>
    /\ current_file_path \in Paths \ {dialog}

\* C2: when the write of a Save or Save As fails, the handler catches the
\* exception, the status bar shows "Error saving file: ...", and the editor
\* text and current_file_path stay what they were.
SaveIsGuarded ==
    [][(Saving' /\ event'.fault # "none")
       => (/\ outcome' = "error"
           /\ statusMessage'[1] = "Error saving file: "
           /\ text' = text
           /\ current_file_path' = current_file_path)]_vars

\* a Save As to another path than the current one failed
SaveFailedWitness ==
    /\ event.op = "save_as"
    /\ event.fault = "write"
    /\ outcome = "error"
    /\ dialog \in Paths
    /\ current_file_path \in Paths \ {dialog}
    /\ text # <<>>

OpenedOk == event.op = "open" /\ outcome = "ok"

\* C3, as stated: after a successful Open of P the editor text equals the
\* content of file P, current_file_path is P and the message is "Opened: P".
OpenLoadsContent ==
    OpenedOk =>
        /\ text = fs[dialog]
        /\ current_file_path = dialog
        /\ statusMessage = <<"Opened: ", dialog>>

\* C3, as the code has it: after a successful Open of P the editor text is the
\* content of file P with every line ending ("\r\n", "\r", "\n") read as "\n",
\* hence the content itself when the file holds no "\r"; current_file_path is
\* P and the message is "Opened: P".
OpenLoadsText ==
    OpenedOk =>
        /\ text = ReadText(fs[dialog])
        /\ (\A i \in 1..Len(fs[dialog]) : fs[dialog][i] # CR) => text = fs[dialog]
        /\ \A i \in 1..Len(text) : text[i] # CR
        /\ current_file_path = dialog
        /\ statusMessage = <<"Opened: ", dialog>>

\* a file with a "\r" line ending has been opened
OpenedWitness ==
    /\ OpenedOk
    /\ \E i \in 1..Len(fs[dialog]) : fs[dialog][i] = CR
    /\ text # <<>>

\* what C4 says of a successful Save or Save As, but for the file's content:
\* Save with a current path shows no dialog and keeps the path, Save without
\* one takes the dialog's path, no other file is written, the text is kept
SaveTargets ==
    /\ (event'.op = "save" /\ current_file_path # "")
           => (dialog' = NoDialog /\ current_file_path' = current_file_path)
    /\ (event'.op = "save_as" \/ current_file_path = "")
           => (dialog' \in Paths /\ current_file_path' = dialog')
    /\ \A q \in Paths \ {current_file_path'} : fs'[q] = fs[q]
    /\ text' = text

SavedOk == Saving /\ outcome = "ok"

\* C4, as stated: after a successful Save or Save As the content of the file
\* at current_file_path equals the editor text.
SaveWritesText ==
    [][SavedOk' => (SaveTargets /\ fs'[current_file_path'] = text')]_vars

\* C4, as the code has it: the file at current_file_path holds the editor text
\* with every "\n" written as the platform's line separator, so that reading
\* it back yields the editor text.
SaveWritesLines ==
    [][SavedOk' => (/\ SaveTargets
                    /\ fs'[current_file_path'] = WriteText(text', linesep)
                    /\ ReadText(fs'[current_file_path']) = text')]_vars

\* a Save without dialog has written a text of two lines over another content
SavedWitness ==
    /\ event.op = "save"
    /\ outcome = "ok"
    /\ dialog = NoDialog
    /\ \E i \in 1..Len(text) : text[i] = LF
    /\ \E q \in Paths \ {current_file_path} : fs[q] \notin {NoFile, fs[current_file_path]}

\* C5: the file label shows the current file (or "No file open").
LabelShowsCurrentFile == file_label = LabelOf(current_file_path)

\* C6: line numbers start shown; each trigger of the action flips
\* show_line_numbers; the gutter is visible exactly when show_line_numbers
\* holds, the check mark equals it, and the left margin is 0 when it is off.
ToggleControlsGutter ==
    /\ [](/\ event.op = "init" => show_line_numbers
          /\ areaVisible = show_line_numbers
          /\ actionChecked = show_line_numbers
          /\ (~show_line_numbers => viewportMargin = 0))
    /\ [][event'.op = "toggle" => show_line_numbers' = ~show_line_numbers]_vars

\* the line numbers have been switched off
ToggledOffWitness ==
    /\ event.op = "toggle"
    /\ ~show_line_numbers
    /\ ~areaVisible
    /\ viewportMargin = 0
    /\ text # <<>>

\* the numbers the gutter has to show for a repaint: one per block from the
\* first visible one that meets the rectangle, each at its block's top
RECURSIVE BlocksToNumber(_, _, _, _)
BlocksToNumber(block, top, rect, n) ==
    IF block >= n \/ top > rect[2] THEN <<>>
    ELSE (IF top + BlockHeight >= rect[1]
          THEN <<[number |-> block + 1, top |-> top]>>
          ELSE <<>>)
         \o BlocksToNumber(block + 1, top + BlockHeight, rect, n)

\* C7: a repaint with line numbers shown draws, for every visible block that
\* meets the repaint rectangle, the number (block index + 1) at the block's
\* top; with line numbers hidden it draws nothing.
GutterDrawsNumbers ==
    event.op = "paint" =>
        painted.drawn =
            IF show_line_numbers
            THEN BlocksToNumber(painted.first, painted.top, painted.rect,
                                blockCount(text))
            ELSE <<>>

\* C8: after the user confirms path P in the "Create a new file" dialog the
\* editor is empty, current_file_path is P and a file exists at P.
NewCreatesFile ==
    (event.op = "new" /\ dialog \in Paths) =>
        /\ text = <<>>
        /\ current_file_path = dialog
        /\ fs[dialog] # NoFile

\* C9: a dismissed dialog (Open, New, Save As, Save without a current file)
\* leaves the editor text, current_file_path, the status message and the
\* disk as they were.
CancelIsNoOp ==
    [][dialog' = ""
       => (/\ outcome' = "cancel"
           /\ text' = text
           /\ current_file_path' = current_file_path
           /\ statusMessage' = statusMessage
           /\ fs' = fs)]_vars

\* the New dialog was dismissed while the editor held a text, a file and a message
CancelledWitness ==
    /\ event.op = "new"
    /\ dialog = ""
    /\ text # <<>>
    /\ current_file_path # ""
    /\ statusMessage # NoMessage
====
